---- MODULE Spec2Model ----
(***************************************************************************)
(* Model of the YouTube audio bot: the download pipeline of                *)
(* bot/youtube_downloader.py (probe, duration check, fetch, transcode,     *)
(* size check), the link handler of bot/youtube_audio_bot.py that drives   *)
(* it, the settings object of settings.py and the users table of           *)
(* bot/database.py.                                                        *)
(*                                                                         *)
(* Texts (error messages, titles) are sequences of one-character strings,  *)
(* so that lower-casing, substring search and sanitising are computed.     *)
(* A path in the scratch directory TEMP_DIR is the triple                  *)
(* <<safe_title, unique_id, extension>> of the file name                   *)
(* f"{safe_title}_{unique_id}.{extension}".                                *)
(***************************************************************************)
EXTENDS Naturals, Integers, Sequences, FiniteSets, TLC

\* ------------------------------------------------------------------ bounds

\* Messages the bot receives in a run of the model.
MaxMessages == 2

\* Calls of increment_user_downloads in flight for one user at a time.
MaxCalls == 3

\* Signals delivered to the process, and updates polled, in one life of the
\* application.
MaxSignals == 2

MaxUpdates == 3

\* Calls of add_user in flight for one user id, and the downloads counted
\* for that user meanwhile.
MaxAddCalls == 3

MaxCounted == 1

\* Queries of handlers while the store starts.
MaxQueries == 2

\* Entries of a BOT_ADMINS list.
MaxAdmins == 3

\* Two users, whose messages the event loop handles concurrently.
Users == {"u1", "u2"}

\* Values str(uuid.uuid4())[:8] takes: 8 hex digits of a random uuid.
UniqueIds == {"1f0e9a77", "c4b2d6e0"}

\* ------------------------------------------------------------------- texts

UpperCase ==
    <<"A","B","C","D","E","F","G","H","I","J","K","L","M",
      "N","O","P","Q","R","S","T","U","V","W","X","Y","Z">>

LowerCase ==
    <<"a","b","c","d","e","f","g","h","i","j","k","l","m",
      "n","o","p","q","r","s","t","u","v","w","x","y","z">>

Digits == {"0","1","2","3","4","5","6","7","8","9"}

\* str.lower() on one character.
LowerChar(c) ==
    IF \E i \in 1..26 : UpperCase[i] = c
    THEN LowerCase[CHOOSE i \in 1..26 : UpperCase[i] = c]
    ELSE c

\* str.lower()
Lower(s) == [i \in 1..Len(s) |-> LowerChar(s[i])]

\* needle in hay (Python's substring test)
Contains(needle, hay) ==
    \E i \in 1..(Len(hay) - Len(needle) + 1) :
        SubSeq(hay, i, i + Len(needle) - 1) = needle

\* The indicators get_video_info looks for in the lower-cased error text.
StrUnavailable == <<"u","n","a","v","a","i","l","a","b","l","e">>

StrAge == <<"a","g","e">>

StrRestricted == <<"r","e","s","t","r","i","c","t","e","d">>

StrPrivate == <<"p","r","i","v","a","t","e">>

\* Error texts the probe can raise (str(e) of the library's exceptions).
MsgUnavailable ==
    <<"a","b","c"," ","i","s"," ","u","n","a","v","a","i","l","a","b","l","e">>

MsgPrivate ==
    <<"a","b","c"," ","i","s"," ","a"," ","p","r","i","v","a","t","e"," ",
      "v","i","d","e","o">>

MsgPrivateUpper == <<"P","r","i","v","a","t","e"," ","v","i","d","e","o">>

MsgAge ==
    <<"a","b","c"," ","i","s"," ","a","g","e"," ","r","e","s","t","r","i","c",
      "t","e","d">>

MsgRestricted ==
    <<"R","e","s","t","r","i","c","t","e","d"," ","c","o","n","t","e","n","t">>

MsgPrivateUnavailable ==
    <<"P","r","i","v","a","t","e"," ","v","i","d","e","o"," ","i","s"," ",
      "u","n","a","v","a","i","l","a","b","l","e">>

\* A private video whose id holds the letters "AGE".
MsgPrivateIdAge ==
    <<"k","A","G","E","q"," ","i","s"," ","a"," ","p","r","i","v","a","t","e",
      " ","v","i","d","e","o">>

MsgPageNotFound ==
    <<"P","a","g","e"," ","n","o","t"," ","f","o","u","n","d">>

MsgHttp == <<"H","T","T","P"," ","E","r","r","o","r"," ","4","0","0">>

\* The text raised by extract_info when yt.title is empty: Cyrillic letters
\* only, written here as one token per word; it holds no ASCII letter.
MsgNoTitle == <<"<cyr>"," ","<cyr>"," ","<cyr>">>

ErrorTexts ==
    { MsgUnavailable, MsgPrivate, MsgPrivateUpper, MsgAge, MsgRestricted,
      MsgPrivateUnavailable, MsgPrivateIdAge, MsgPageNotFound, MsgHttp,
      MsgNoTitle,
      \* "Age-restricted video is unavailable"
      <<"A","g","e","-","r","e","s","t","r","i","c","t","e","d"," ","v","i",
        "d","e","o"," ","i","s"," ","u","n","a","v","a","i","l","a","b","l",
        "e">> }

NoError == << >>

\* An except branch that looks for "private" first.
get_video_info_except_private_first(e) ==
    LET error_msg == Lower(e) IN
    IF Contains(StrPrivate, error_msg) THEN "PRIVATE"
    ELSE IF Contains(StrUnavailable, error_msg) THEN "UNAVAILABLE"
    ELSE IF Contains(StrAge, error_msg) \/ Contains(StrRestricted, error_msg)
         THEN "AGE_RESTRICTED"
    ELSE "None"

\* get_video_info's except branch: the status for the error text e.
get_video_info_except(e) ==
    LET error_msg == Lower(e) IN
    IF Contains(StrUnavailable, error_msg) THEN "UNAVAILABLE"
    ELSE IF Contains(StrAge, error_msg) \/ Contains(StrRestricted, error_msg)
         THEN "AGE_RESTRICTED"
    ELSE IF Contains(StrPrivate, error_msg) THEN "PRIVATE"
    ELSE "None"

\* ------------------------------------------------------------ file names

\* \w of the regular expression: letters, digits, underscore.
IsWordChar(c) ==
    \/ \E i \in 1..26 : UpperCase[i] = c \/ LowerCase[i] = c
    \/ c \in Digits
    \/ c = "_"

\* \s of the regular expression.
IsSpace(c) == c = " "

\* re.sub(r'[^\w\s-]', '', title)
RECURSIVE StripSpecial(_)
StripSpecial(s) ==
    IF s = << >> THEN << >>
    ELSE IF IsWordChar(Head(s)) \/ IsSpace(Head(s)) \/ Head(s) = "-"
         THEN <<Head(s)>> \o StripSpecial(Tail(s))
         ELSE StripSpecial(Tail(s))

\* str.strip()
RECURSIVE LStrip(_)
LStrip(s) ==
    IF s # << >> /\ IsSpace(Head(s)) THEN LStrip(Tail(s)) ELSE s

RECURSIVE RStrip(_)
RStrip(s) ==
    IF s # << >> /\ IsSpace(s[Len(s)])
    THEN RStrip(SubSeq(s, 1, Len(s) - 1))
    ELSE s

Strip(s) == RStrip(LStrip(s))

\* The [:50] of safe_title.
SafeTitleLen == 50

\* safe_title = re.sub(r'[^\w\s-]', '', title).strip()[:50]
SafeTitle(title) ==
    LET t == Strip(StripSpecial(title)) IN
    IF Len(t) > SafeTitleLen THEN SubSeq(t, 1, SafeTitleLen) ELSE t

\* Titles the probe reports: two titles that differ only in a character the
\* sanitiser removes.
TitleSongBang == <<"S","o","n","g"," ","1","!">>

TitleSongQuery == <<" ","S","o","n","g"," ","1","?">>

Titles == { TitleSongBang, TitleSongQuery }

NoPath == << >>

\* temp_path = TEMP_DIR / f"{safe_title}_{unique_id}.{file_extension}"
TempFileName(title, unique_id, file_extension) ==
    <<SafeTitle(title), unique_id, file_extension>>

\* output_path = TEMP_DIR / f"{safe_title}_{unique_id}.mp3"
OutputFileName(title, unique_id) ==
    <<SafeTitle(title), unique_id, "mp3">>

\* ------------------------------------------------------------------- links

\* The pieces of which links are made.
SchemeHttp == <<"h","t","t","p",":","/","/">>

SchemeHttps == <<"h","t","t","p","s",":","/","/">>

HostWww == <<"w","w","w",".","y","o","u","t","u","b","e",".","c","o","m">>

HostBare == <<"y","o","u","t","u","b","e",".","c","o","m">>

HostMobile == <<"m",".","y","o","u","t","u","b","e",".","c","o","m">>

HostShort == <<"y","o","u","t","u",".","b","e">>

HostNoCookie ==
    <<"w","w","w",".","y","o","u","t","u","b","e","-","n","o","c","o","o","k","i","e",".","c","o","m">>

VideoIdPlain == <<"d","Q","w","4","w","9","W","g","X","c","Q">>

VideoIdDashed == <<"a","-","b","_","c","1","D","2","e","3","F">>

VideoIds == { VideoIdPlain, VideoIdDashed }

\* A link in parts: scheme, host, the shape of its path, the video id it
\* carries (none for a shape without one) and its extra query parameters.
NoId == << >>

Schemes == { "none", "http", "https" }

Hosts == { "www", "bare", "mobile", "short", "nocookie" }

IdShapes == { "watch", "embed", "v", "short", "watch_param" }

PlainShapes == { "feed", "playlist", "root" }

Extras == { "none", "list", "tracking" }

Links ==
    { l \in [scheme : Schemes, host : Hosts, shape : IdShapes \cup PlainShapes,
             id : VideoIds \cup {NoId}, extra : Extras] :
        /\ (l.shape \in IdShapes) <=> (l.id # NoId)
        /\ (l.shape \in PlainShapes) => l.extra = "none"
        /\ (l.host = "short") <=> (l.shape = "short")
        /\ (l.host = "nocookie") => (l.shape = "embed") }

SchemeText(l) ==
    CASE l.scheme = "none" -> << >>
      [] l.scheme = "http" -> SchemeHttp
      [] l.scheme = "https" -> SchemeHttps

HostText(l) ==
    CASE l.host = "www" -> HostWww
      [] l.host = "bare" -> HostBare
      [] l.host = "mobile" -> HostMobile
      [] l.host = "short" -> HostShort
      [] l.host = "nocookie" -> HostNoCookie

PathText(l) ==
    CASE l.shape = "watch" -> <<"/","w","a","t","c","h","?","v","=">> \o l.id
      [] l.shape = "embed" -> <<"/","e","m","b","e","d","/">> \o l.id
      [] l.shape = "v" -> <<"/","v","/">> \o l.id
      [] l.shape = "short" -> <<"/">> \o l.id
      [] l.shape = "watch_param" ->
             <<"/","w","a","t","c","h","?","a","p","p","=","1","&","v","=">>
             \o l.id
      [] l.shape = "feed" ->
             <<"/","f","e","e","d","/","s","u","b","s","c","r","i","p","t","i","o","n","s">>
      [] l.shape = "playlist" ->
             <<"/","p","l","a","y","l","i","s","t","?","l","i","s","t","=","P","L","1">>
      [] l.shape = "root" -> <<"/">>

\* The extra parameters: a playlist with radio start, or a tracking token.
ExtraText(l) ==
    LET sep == IF l.shape \in {"watch", "watch_param"} THEN <<"&">>
               ELSE <<"?">>
    IN
    CASE l.extra = "none" -> << >>
      [] l.extra = "list" ->
             sep \o <<"l","i","s","t","=","R","D","1","&","s","t","a","r","t","_","r","a","d","i","o","=","1">>
      [] l.extra = "tracking" -> sep \o <<"s","i","=","T","r","4","c","k">>

\* The text of the link l, as a user sends it.
Render(l) == SchemeText(l) \o HostText(l) \o PathText(l) \o ExtraText(l)

\* Texts that are no links to the site.
TextHello == <<"h","e","l","l","o"," ","w","o","r","l","d","!">>

TextOtherSite ==
    <<"h","t","t","p","s",":","/","/","e","x","a","m","p","l","e",".","c","o","m","/","w","a","t","c","h","?","v","=">>
    \o VideoIdPlain

PlainTexts == { TextHello, TextOtherSite }

NoParts == [scheme |-> "none", host |-> "none", shape |-> "text",
            id |-> NoId, extra |-> "none"]

\* The texts checked: every link with its parts, and the plain texts.
LinkInputs ==
    { [parts |-> l, url |-> Render(l)] : l \in Links }
    \cup { [parts |-> NoParts, url |-> t] : t \in PlainTexts }

\* The texts users send to the bot: a link, a link on the mobile host, a
\* text that is no link, and a short link followed by blanks.
UrlWatch ==
    Render([scheme |-> "https", host |-> "www", shape |-> "watch",
            id |-> VideoIdPlain, extra |-> "none"])

UrlMobile ==
    Render([scheme |-> "https", host |-> "mobile", shape |-> "watch",
            id |-> VideoIdPlain, extra |-> "none"])

TextShortBlanks ==
    <<"y","o","u","t","u",".","b","e","/","a","b","c","d","e","f","g"," "," "," "," ">>

MessageTexts == { UrlWatch, UrlMobile, TextHello, TextShortBlanks }

\* The literal lit stands in s at position p.
LiteralAt(lit, s, p) ==
    /\ p + Len(lit) - 1 <= Len(s)
    /\ SubSeq(s, p, p + Len(lit) - 1) = lit

\* The positions reached from a position of P by one of the literals.
AfterLiterals(lits, s, P) ==
    { x[1] + Len(x[2]) : x \in { y \in P \X lits : LiteralAt(y[2], s, y[1]) } }

\* (...)? : the group is matched or skipped.
AfterOptional(lits, s, P) == P \cup AfterLiterals(lits, s, P)

\* .+\?v= : one character or more, then "?v=".
AfterAnyThenQueryV(s, P) ==
    { q \in 1..(Len(s) + 1) :
        \E p \in P : q - 3 > p /\ LiteralAt(<<"?","v","=">>, s, q - 3) }

\* [^&=%\?]{11} at position p.
ElevenPlainAt(s, p) ==
    /\ p + 10 <= Len(s)
    /\ \A i \in p..(p + 10) : s[i] \notin {"&", "=", "%", "?"}

\* The link texts the validator accepts: youtube_regex.match(url), with
\* (https?://)?(www\.)?(youtube|youtu|youtube-nocookie)\.(com|be)/
\* (watch\?v=|embed/|v/|.+\?v=)?([^&=%\?]{11})
is_valid_youtube_url(url) ==
    LET scheme == AfterOptional({SchemeHttp, SchemeHttps}, url, {1})
        www == AfterOptional({<<"w","w","w",".">>}, url, scheme)
        name == AfterLiterals(
                    {<<"y","o","u","t","u","b","e">>,
                     <<"y","o","u","t","u">>,
                     <<"y","o","u","t","u","b","e","-","n","o","c","o","o","k","i","e">>},
                    url, www)
        dot == AfterLiterals({<<".">>}, url, name)
        tld == AfterLiterals({<<"c","o","m">>, <<"b","e">>}, url, dot)
        slash == AfterLiterals({<<"/">>}, url, tld)
        prefix == slash
                  \cup AfterLiterals(
                           {<<"w","a","t","c","h","?","v","=">>,
                            <<"e","m","b","e","d","/">>, <<"v","/">>},
                           url, slash)
                  \cup AfterAnyThenQueryV(url, slash)
    IN \E p \in prefix : ElevenPlainAt(url, p)

\* [a-zA-Z0-9_-]
IsIdChar(c) == IsWordChar(c) \/ c = "-"

\* ([a-zA-Z0-9_-]{11}) at position p.
VideoIdAt(s, p) ==
    /\ p + 10 <= Len(s)
    /\ \A i \in p..(p + 10) : IsIdChar(s[i])

Minimum(S) == CHOOSE x \in S : \A y \in S : x <= y

Maximum(S) == CHOOSE x \in S : \A y \in S : y <= x

\* The first pattern of _clean_url:
\* (?:youtube\.com/watch\?v=|youtu\.be/|youtube\.com/embed/)([a-zA-Z0-9_-]{11})
\* The set of positions at which re.search finds the video id: the one of
\* the leftmost match, or none.
FirstPatternId(url) ==
    LET prefixes == { <<"y","o","u","t","u","b","e",".","c","o","m","/","w","a","t","c","h","?","v","=">>,
                      <<"y","o","u","t","u",".","b","e","/">>,
                      <<"y","o","u","t","u","b","e",".","c","o","m","/","e","m","b","e","d","/">> }
        starts == { i \in 1..Len(url) :
                      \E lit \in prefixes :
                          LiteralAt(lit, url, i) /\ VideoIdAt(url, i + Len(lit)) }
    IN IF starts = {} THEN {}
       ELSE LET i == Minimum(starts)
                lit == CHOOSE x \in prefixes :
                           LiteralAt(x, url, i) /\ VideoIdAt(url, i + Len(x))
            IN { i + Len(lit) }

\* The second pattern: youtube\.com/watch\?.*v=([a-zA-Z0-9_-]{11}); the
\* greedy .* takes the last "v=" that an id follows.
SecondPatternId(url) ==
    LET head == <<"y","o","u","t","u","b","e",".","c","o","m","/","w","a","t","c","h","?">>
        ids(i) == { j \in (i + Len(head))..Len(url) :
                      LiteralAt(<<"v","=">>, url, j) /\ VideoIdAt(url, j + 2) }
        starts == { i \in 1..Len(url) :
                      LiteralAt(head, url, i) /\ ids(i) # {} }
    IN IF starts = {} THEN {}
       ELSE { Maximum(ids(Minimum(starts))) + 2 }

\* f"https://www.youtube.com/watch?v={video_id}"
CanonicalUrl(video_id) ==
    <<"h","t","t","p","s",":","/","/","w","w","w",".","y","o","u","t","u","b","e",".","c","o","m","/","w","a","t","c","h","?","v","=">>
    \o video_id

\* _clean_url: the canonical form for the id of the first pattern that
\* matches, else the text unchanged.
_clean_url(url) ==
    LET found == IF FirstPatternId(url) # {} THEN FirstPatternId(url)
                 ELSE SecondPatternId(url)
    IN IF found = {} THEN url
       ELSE LET p == CHOOSE q \in found : TRUE
            IN CanonicalUrl(SubSeq(url, p, p + 10))

\* ---------------------------------------------------------------- settings

\* MAX_FILE_SIZE = int(os.getenv("MAX_FILE_SIZE", "50")), in megabytes.
DefaultMaxFileSize == 50

\* The attributes Settings.__init__ assigns that the pipeline reads. It
\* assigns no MAX_DURATION.
SettingsInit == [MAX_FILE_SIZE |-> DefaultMaxFileSize]

\* A settings object that also carries the MAX_DURATION attribute which
\* download_audio, _help_handler and _url_handler read: the maximum duration
\* in seconds, here two hours.
SettingsWithMaxDuration ==
    [MAX_FILE_SIZE |-> DefaultMaxFileSize, MAX_DURATION |-> 2 * 3600]

\* The maximum duration of the deployment's configuration, in seconds.
ConfiguredMaxDuration == SettingsWithMaxDuration.MAX_DURATION

\* Python's attribute lookup: AttributeError when the attribute is missing.
HasAttr(obj, name) == name \in DOMAIN obj

\* settings.MAX_FILE_SIZE * 1024 * 1024
MaxFileBytes(s) == s.MAX_FILE_SIZE * 1024 * 1024

\* Durations (yt.length, seconds) the probe reports.
Durations == { ConfiguredMaxDuration, ConfiguredMaxDuration + 1 }

\* Sizes in bytes of a transcoded file: exactly the limit, and one more.
FileSizes ==
    { DefaultMaxFileSize * 1024 * 1024,
      DefaultMaxFileSize * 1024 * 1024 + 1 }

\* ----------------------------------------------------------------- streams

\* A stream of yt.streams: only_audio (audio track and no video track),
\* adaptive, the subtype of its mime type, and abr in kbps (0: none).
AudioMp4 ==
    [only_audio |-> TRUE, adaptive |-> TRUE, subtype |-> "mp4", abr |-> 128]

AudioWebm ==
    [only_audio |-> TRUE, adaptive |-> TRUE, subtype |-> "webm", abr |-> 160]

ProgressiveMp4 ==
    [only_audio |-> FALSE, adaptive |-> FALSE, subtype |-> "mp4", abr |-> 96]

VideoOnlyWebm ==
    [only_audio |-> FALSE, adaptive |-> TRUE, subtype |-> "webm", abr |-> 0]

\* The stream lists a video offers.
StreamOffers ==
    { {}, {AudioMp4, AudioWebm, ProgressiveMp4}, {AudioWebm, VideoOnlyWebm},
      {ProgressiveMp4, VideoOnlyWebm}, {VideoOnlyWebm} }

\* query.order_by('abr').desc().first(): the stream of highest abr among
\* those that have one; the empty set when there is none.
FirstByAbrDesc(streams) ==
    LET rated == { s \in streams : s.abr > 0 } IN
    IF rated = {} THEN {}
    ELSE { CHOOSE s \in rated : \A t \in rated : t.abr <= s.abr }

\* The four queries of download(), in the order they are tried.
AudioStreamQueries(streams) ==
    << { s \in streams : s.only_audio /\ s.subtype = "mp4" },
       { s \in streams : s.only_audio },
       { s \in streams : s.adaptive /\ s.only_audio },
       { s \in streams : s.subtype = "mp4" } >>

\* The loop over audio_streams: the first query with a first() stream.
RECURSIVE FirstStream(_, _)
FirstStream(queries, i) ==
    IF i > Len(queries) THEN {}
    ELSE IF FirstByAbrDesc(queries[i]) # {} THEN FirstByAbrDesc(queries[i])
    ELSE FirstStream(queries, i + 1)

\* audio_stream of download(): a set of at most one stream.
SelectStream(streams) == FirstStream(AudioStreamQueries(streams), 1)

\* file_extension = audio_stream.mime_type.split('/')[-1]
FileExtension(stream) == stream.subtype

\* ------------------------------------------------------------------- state

VARIABLES
    settings,    \* the global settings object: attribute name -> value
    world,       \* what the outside world does: "any", or "all_succeed":
                 \* every probe, fetch and transcode succeeds and every
                 \* duration and size is within the limits
    files,       \* the scratch directory TEMP_DIR: path -> size in bytes
    users,       \* the users table: user -> [registered, downloads_count]
    messages,    \* messages the bot has received so far
    fsm,         \* each user's conversation state
    pc,          \* where each user's handler stands
    run,         \* each user's pipeline run, the locals of download_audio:
                 \*   text         message.text
                 \*   info         what get_video_info returned
                 \*   error        the error text the probe raised, if any
                 \*   stream       audio_stream of download(), a set of at
                 \*                most one stream, while the fetched file
                 \*                awaits the transcode
                 \*   temp_path    the fetched artifact of download()
                 \*   mp3_path     the transcoded artifact, mp3_file_path
                 \*   temp_id, mp3_id   the unique_id drawn for each
                 \*   file_size    the size read by the size check
                 \*   result       what download_audio returned
                 \*   stages       the stages executed so far, in order
                 \*   failedAt     the stage at which the run failed
    delivered,   \* answer_audio succeeded for the user's last link
    incCalls,    \* calls of increment_user_downloads for the user's last link
    audios,      \* the audio files sent to the user: the calls of
                 \* answer_audio that returned
    app,         \* the application's life cycle, on its own: its phase,
                 \* the signal handlers installed, the signals received
                 \* and what was closed
    adds,        \* concurrent calls of add_user for one user id, on their own
    table,       \* the rows of the users table for that id, committed
    boot,        \* the start of the store, on its own: the
                 \* schema-creation task, the tables that exist and the
                 \* handlers' first queries
    link,        \* a text under the validator and _clean_url, on their own:
                 \* its parts, its text, the verdict and the cleaned text
    calls,       \* concurrent calls of increment_user_downloads for one
                 \* user, on their own: each call's phase and the counter
                 \* value its UPDATE wrote inside its transaction
    writer,      \* the call whose connection holds the database's write
                 \* lock, 0 for none
    downloads,   \* the rows of the downloads table, in insertion order
    admins       \* BOT_ADMINS under _parse_admins, on its own: the text
                 \* of the environment variable, whether it was parsed,
                 \* and the list returned

\* The state that no handler of the bot changes.
rest == <<boot, table, adds, app, link, calls, writer, downloads, admins>>

vars ==
    <<settings, world, files, users, messages, fsm, pc, run, delivered,
      incCalls, audios, rest>>

Worlds == {"any", "all_succeed"}

NoInfo == [tag |-> "unset", title |-> << >>, duration |-> 0]

\* The values download_audio returns: a status string, None or a path.
Status(s) == [tag |-> s, path |-> NoPath]

NoResult == Status("unset")

ReturnNone == Status("None")

ReturnPath(p) == [tag |-> "PATH", path |-> p]

NoRun ==
    [text |-> << >>, info |-> NoInfo, error |-> NoError, stream |-> {},
     temp_path |-> NoPath, mp3_path |-> NoPath, temp_id |-> "", mp3_id |-> "",
     file_size |-> 0,
     result |-> NoResult, stages |-> << >>, failedAt |-> "none"]

\* Path.exists()
Exists(f, p) == p \in DOMAIN f

\* A file written (created or overwritten) at path p.
WriteFile(f, p, size) ==
    [q \in DOMAIN f \cup {p} |-> IF q = p THEN size ELSE f[q]]

\* Path.unlink(missing_ok=True)
Unlink(f, p) == [q \in DOMAIN f \ {p} |-> f[q]]

NoLink ==
    [parts |-> NoParts, url |-> << >>, valid |-> "unset", cleaned |-> << >>]

Calls == 1..MaxCalls

NoCall == [phase |-> "none", value |-> 0]

\* The store after DatabaseManager.__init__: the task that creates the
\* schema is created and has not run; no update is being handled. The
\* database file of a first start holds no table, that of a later start
\* holds both.
BootStarted ==
    [task |-> "created", tables |-> {}, pending |-> "none",
     queries |-> << >>]

\* The store while the handlers of the bot run, the schema created.
BootDone ==
    [BootStarted EXCEPT !.task = "done", !.tables = {"users", "downloads"}]

AddCalls == 1..MaxAddCalls

NoAdd == [phase |-> "none", user_exists |-> FALSE, error |-> ""]

Signals == {"SIGTERM", "SIGINT"}

\* The application after BotApplication.startup built the bot: no handler
\* of its own is installed for a signal yet.
AppStarted ==
    [phase |-> "bot_built",
     handlers |-> [sig \in Signals |-> "default"],
     shutdown_event |-> FALSE,
     stop_signal |-> FALSE,
     received |-> << >>,
     while_polling |-> FALSE,
     updates |-> 0,
     session |-> "open",
     db_closed |-> FALSE]

\* The application while the handlers of the bot run: it polls, with the
\* signal handlers that Dispatcher.start_polling installed.
AppPolling ==
    [AppStarted EXCEPT !.phase = "polling",
                       !.handlers = [sig \in Signals |-> "dispatcher"]]

\* BOT_ADMINS unset: os.getenv gives "", _parse_admins gave [].
NoAdmins == [env |-> << >>, parsed |-> TRUE, ids |-> << >>]

\* The bot after construction.
InitBot ==
    /\ files = << >>
    /\ users = [u \in Users |-> [registered |-> FALSE, downloads_count |-> 0]]
    /\ messages = 0
    /\ fsm = [u \in Users |-> "none"]
    /\ pc = [u \in Users |-> "idle"]
    /\ run = [u \in Users |-> NoRun]
    /\ delivered = [u \in Users |-> FALSE]
    /\ incCalls = [u \in Users |-> 0]
    /\ audios = [u \in Users |-> 0]

Init ==
    /\ settings \in {SettingsInit, SettingsWithMaxDuration}
    /\ world \in Worlds
    /\ InitBot
    /\ link = NoLink
    /\ calls = [c \in Calls |-> NoCall]
    /\ writer = 0
    /\ boot = BootDone
    /\ table = << >>
    /\ adds = [c \in AddCalls |-> NoAdd]
    /\ app = AppPolling
    /\ downloads = << >>
    /\ admins = NoAdmins

\* ----------------------------------------------------------------- helpers

\* download_audio without its "except Exception": the error reaches the
\* caller.
ExceptResultRaised == Status("RAISED")

\* download_audio's "except Exception": the error is logged, None returned.
ExceptResult == ReturnNone

\* A download_audio that tries a failed fetch again.
AfterFailureRetryFetch(stage) ==
    IF stage = "fetch" THEN "fetch" ELSE "returned"

\* Where download_audio goes when a stage failed: it returns.
AfterFailure(stage) == "returned"

\* The run r entering a stage.
Entered(r, stage) == [r EXCEPT !.stages = Append(@, stage)]

\* The run r returning res from download_audio; stage is where it failed.
Returned(r, res, stage) == [r EXCEPT !.result = res, !.failedAt = stage]

\* What _url_handler holds of the run r once download_audio has returned a
\* path: the text and the path; download_audio's locals are gone.
HandlerLocals(r) == [NoRun EXCEPT !.text = r.text, !.result = r.result]

\* _url_handler's "finally: await state.clear()", and the handler returns;
\* the locals of its call of download_audio are gone.
Finish(u) ==
    /\ fsm' = [fsm EXCEPT ![u] = "none"]
    /\ pc' = [pc EXCEPT ![u] = "idle"]
    /\ run' = [run EXCEPT ![u] = NoRun]

\* A pipeline whose fetch is called on the event loop itself.
RunsOnLoopFetch(stage) == stage \in {"probe", "transcode"}

\* The blocking stages that loop.run_in_executor hands to a worker thread:
\* extract_info, download and convert.
RunsInExecutor(stage) == stage \in {"probe", "fetch", "transcode"}

\* The event loop is held by a blocking stage of another user's run: a
\* stage in progress that was not handed to a worker.
LoopHeld(u) ==
    \E v \in Users \ {u} :
        pc[v] \in {"probe", "fetch", "transcode"} /\ ~RunsInExecutor(pc[v])

\* ------------------------------------------------------ the front-end

\* /start: state.clear(), then db.add_user: a row is inserted for a new
\* user, an existing row keeps its counter. A store error is swallowed.
_start_handler(u) ==
    /\ pc[u] = "idle"
    /\ ~LoopHeld(u)
    /\ messages < MaxMessages
    /\ messages' = messages + 1
    /\ fsm' = [fsm EXCEPT ![u] = "none"]
    /\ \E db_ok \in BOOLEAN :
        users' = IF db_ok
                 THEN [users EXCEPT ![u].registered = TRUE]
                 ELSE users
    /\ UNCHANGED <<settings, world, files, pc, run, delivered, incCalls,
                   audios>>
    /\ UNCHANGED rest

\* Where _url_handler sends a text: it tests the stripped text.
UrlRoute(text) ==
    IF ~is_valid_youtube_url(Strip(text)) THEN "invalid_link" ELSE "process"

\* A handler that passes every text on to the pipeline.
RouteUnchecked(text) == "process"

\* Where _default_handler sends a text: it tests the text and calls
\* _url_handler for a link.
Route(text) ==
    IF ~is_valid_youtube_url(text) THEN "not_understood" ELSE UrlRoute(text)

\* The head of _url_handler for the text routed as route: a text that is no
\* link is to be answered "invalid link", the state staying as it is;
\* otherwise the processing message is sent and download_audio is called.
UrlHandlerHead(u, text, route) ==
    /\ run' = [run EXCEPT ![u] = [NoRun EXCEPT !.text = text]]
    /\ IF route = "process"
       THEN /\ pc' = [pc EXCEPT ![u] = "probe"]
            /\ delivered' = [delivered EXCEPT ![u] = FALSE]
            /\ incCalls' = [incCalls EXCEPT ![u] = 0]
       ELSE /\ pc' = [pc EXCEPT ![u] = "reject"]
            /\ UNCHANGED <<delivered, incCalls>>
    /\ UNCHANGED audios

\* _default_handler, for a user in no state: a text that is no link is to be
\* answered "not understood"; for a link the state becomes waiting_for_url
\* and _url_handler is called.
_default_handler(u) ==
    /\ pc[u] = "idle"
    /\ ~LoopHeld(u)
    /\ fsm[u] = "none"
    /\ messages < MaxMessages
    /\ messages' = messages + 1
    /\ \E text \in MessageTexts :
        LET route == Route(text) IN
        IF route = "not_understood"
        THEN /\ UrlHandlerHead(u, text, route)
             /\ UNCHANGED fsm
        ELSE /\ fsm' = [fsm EXCEPT ![u] = "waiting_for_url"]
             /\ UrlHandlerHead(u, text, route)
    /\ UNCHANGED <<settings, world, files, users>>
    /\ UNCHANGED rest

\* _url_handler, registered for the state waiting_for_url: the message of a
\* user in that state goes to it directly.
_url_handler(u) ==
    /\ pc[u] = "idle"
    /\ ~LoopHeld(u)
    /\ fsm[u] = "waiting_for_url"
    /\ messages < MaxMessages
    /\ messages' = messages + 1
    /\ \E text \in MessageTexts : UrlHandlerHead(u, text, UrlRoute(text))
    /\ UNCHANGED <<settings, world, files, users, fsm>>
    /\ UNCHANGED rest

\* message.answer with the rejection text; the handler returns, the state
\* is not cleared.
reject_answer(u) ==
    /\ pc[u] = "reject"
    /\ ~LoopHeld(u)
    /\ pc' = [pc EXCEPT ![u] = "idle"]
    /\ run' = [run EXCEPT ![u] = NoRun]
    /\ UNCHANGED <<settings, world, files, users, messages, fsm, delivered,
                   incCalls, audios>>
    /\ UNCHANGED rest

\* ------------------------------------------------------ download_audio

\* The probe: get_video_info returns the metadata, or its except branch
\* maps the error text to a status; download_audio returns on a status.
get_video_info(u) ==
    /\ pc[u] = "probe"
    /\ ~LoopHeld(u)
    /\ \/ \E title \in Titles, duration \in Durations :
            /\ world = "all_succeed" => duration <= ConfiguredMaxDuration
            /\ run' = [run EXCEPT ![u] =
                   [Entered(@, "probe") EXCEPT !.info =
                       [tag |-> "dict", title |-> title,
                        duration |-> duration]]]
            /\ pc' = [pc EXCEPT ![u] = "duration_check"]
       \/ \E e \in ErrorTexts :
            /\ world = "any"
            /\ run' = [run EXCEPT ![u] =
                   [Returned(Entered(@, "probe"),
                             Status(get_video_info_except(e)), "probe")
                    EXCEPT !.error = e,
                           !.info = [tag |-> get_video_info_except(e),
                                     title |-> << >>, duration |-> 0]]]
            /\ pc' = [pc EXCEPT ![u] = AfterFailure("probe")]
    /\ UNCHANGED <<settings, world, files, users, messages, fsm, delivered,
                   incCalls, audios>>
    /\ UNCHANGED rest

\* if duration > settings.MAX_DURATION: return "TOO_LONG". Reading a missing
\* attribute raises AttributeError, which download_audio's except catches.
duration_check(u) ==
    /\ pc[u] = "duration_check"
    /\ ~LoopHeld(u)
    /\ LET r == Entered(run[u], "duration_check") IN
       IF ~HasAttr(settings, "MAX_DURATION")
       THEN /\ run' = [run EXCEPT ![u] =
                       Returned(r, ExceptResult, "duration_check")]
            /\ pc' = [pc EXCEPT ![u] = AfterFailure("duration_check")]
       ELSE IF r.info.duration > settings.MAX_DURATION
       THEN /\ run' = [run EXCEPT ![u] =
                       Returned(r, Status("TOO_LONG"), "duration_check")]
            /\ pc' = [pc EXCEPT ![u] = AfterFailure("duration_check")]
       ELSE /\ run' = [run EXCEPT ![u] = r]
            /\ pc' = [pc EXCEPT ![u] = "fetch"]
    /\ UNCHANGED <<settings, world, files, users, messages, fsm, delivered,
                   incCalls, audios>>
    /\ UNCHANGED rest

\* What audio_stream.download can do: write the whole file; raise before
\* anything is written; raise after it began writing; or return without
\* having written a file.
FetchOutcomes == {"ok", "raise_early", "raise_partial", "no_file"}

\* download() in the executor, and the check of its result.
download(u) ==
    /\ pc[u] = "fetch"
    /\ ~LoopHeld(u)
    /\ \E offered \in StreamOffers, unique_id \in UniqueIds,
          outcome \in FetchOutcomes :
        LET audio_stream == SelectStream(offered)
            stream == CHOOSE s \in audio_stream : TRUE
            temp_path == TempFileName(run[u].info.title, unique_id,
                                      FileExtension(stream))
            r == Entered(run[u], "fetch")
            named == [r EXCEPT !.stream = audio_stream,
                               !.temp_path = temp_path, !.temp_id = unique_id]
        IN
        /\ world = "all_succeed" => audio_stream # {} /\ outcome = "ok"
        /\ IF outcome = "raise_early"
           THEN /\ run' = [run EXCEPT ![u] =
                           Returned(r, ExceptResult, "fetch")]
                /\ pc' = [pc EXCEPT ![u] = AfterFailure("fetch")]
                /\ UNCHANGED files
           ELSE IF audio_stream = {}
           THEN /\ run' = [run EXCEPT ![u] =
                           Returned(r, ReturnNone, "fetch")]
                /\ pc' = [pc EXCEPT ![u] = AfterFailure("fetch")]
                /\ UNCHANGED files
           ELSE CASE outcome = "ok" ->
                      /\ files' = WriteFile(files, temp_path, 0)
                      /\ run' = [run EXCEPT ![u] = named]
                      /\ pc' = [pc EXCEPT ![u] = "transcode"]
                  [] outcome = "raise_partial" ->
                      /\ files' = WriteFile(files, temp_path, 0)
                      /\ run' = [run EXCEPT ![u] =
                             Returned(named, ExceptResult, "fetch")]
                      /\ pc' = [pc EXCEPT ![u] = AfterFailure("fetch")]
                  [] outcome = "no_file" ->
                      /\ files' = files
                      /\ IF Exists(files, temp_path)
                         THEN /\ run' = [run EXCEPT ![u] = named]
                              /\ pc' = [pc EXCEPT ![u] = "transcode"]
                         ELSE /\ run' = [run EXCEPT ![u] =
                                     Returned(named, ReturnNone, "fetch")]
                              /\ pc' = [pc EXCEPT ![u] =
                                     AfterFailure("fetch")]
    /\ UNCHANGED <<settings, world, users, messages, fsm, delivered, incCalls,
                   audios>>
    /\ UNCHANGED rest

\* What convert() can do: export the file; raise while decoding the input;
\* raise after export began writing the output.
ConvertOutcomes == {"ok", "raise_decode", "raise_partial"}

\* _convert_to_mp3, then the unlink of the fetched file that follows it.
_convert_to_mp3(u) ==
    /\ pc[u] = "transcode"
    /\ ~LoopHeld(u)
    /\ \E unique_id \in UniqueIds, outcome \in ConvertOutcomes,
          size \in FileSizes :
        LET output_path == OutputFileName(run[u].info.title, unique_id)
            written ==
                CASE outcome = "ok" -> WriteFile(files, output_path, size)
                  [] outcome = "raise_partial" ->
                         WriteFile(files, output_path, 0)
                  [] outcome = "raise_decode" -> files
            r == [Entered(run[u], "transcode") EXCEPT !.stream = {}]
        IN
        /\ ~Exists(files, run[u].temp_path) => outcome = "raise_decode"
        /\ (world = "all_succeed" /\ Exists(files, run[u].temp_path)) =>
               outcome = "ok" /\ size <= MaxFileBytes(settings)
        /\ files' = Unlink(written, run[u].temp_path)
        /\ IF outcome = "ok"
           THEN /\ run' = [run EXCEPT ![u] =
                       [r EXCEPT !.mp3_path = output_path,
                                 !.mp3_id = unique_id]]
                /\ pc' = [pc EXCEPT ![u] = "size_check"]
           ELSE /\ run' = [run EXCEPT ![u] =
                           Returned(r, ReturnNone, "transcode")]
                /\ pc' = [pc EXCEPT ![u] = AfterFailure("transcode")]
    /\ UNCHANGED <<settings, world, users, messages, fsm, delivered, incCalls,
                   audios>>
    /\ UNCHANGED rest

\* A size check that returns None and leaves the file where it is.
OversizeKept(f, p) == f

\* What is left of the scratch directory when the file at p is over the
\* size limit: Path(mp3_file_path).unlink(missing_ok=True).
OversizeRemoved(f, p) == Unlink(f, p)

\* if file_size > settings.MAX_FILE_SIZE * 1024 * 1024
OverLimit(file_size, s) == file_size > MaxFileBytes(s)

\* The size check: a file over the limit is unlinked and None returned,
\* otherwise the path is returned.
size_check(u) ==
    /\ pc[u] = "size_check"
    /\ ~LoopHeld(u)
    /\ IF ~Exists(files, run[u].mp3_path)
       THEN /\ run' = [run EXCEPT ![u] =
                       Returned(@, ReturnNone, "transcode")]
            /\ pc' = [pc EXCEPT ![u] = AfterFailure("transcode")]
            /\ UNCHANGED files
       ELSE LET r == [Entered(run[u], "size_check")
                        EXCEPT !.file_size = files[run[u].mp3_path]] IN
            IF OverLimit(r.file_size, settings)
            THEN /\ files' = OversizeRemoved(files, r.mp3_path)
                 /\ run' = [run EXCEPT ![u] =
                            Returned(r, ReturnNone, "size_check")]
                 /\ pc' = [pc EXCEPT ![u] = AfterFailure("size_check")]
            ELSE /\ run' = [run EXCEPT ![u] =
                        Returned(r, ReturnPath(r.mp3_path), "none")]
                 /\ pc' = [pc EXCEPT ![u] = "returned"]
                 /\ UNCHANGED files
    /\ UNCHANGED <<settings, world, users, messages, fsm, delivered, incCalls,
                   audios>>
    /\ UNCHANGED rest

\* ------------------------------------------------- _url_handler, the rest

\* _url_handler on the value download_audio returned: a status, None or a
\* path without a file is answered with its message and the handler returns;
\* for a path with a file the processing message is edited before sending.
\* An edit_text that raises is caught by "except Exception".
_url_handler_result(u) ==
    /\ pc[u] = "returned"
    /\ ~LoopHeld(u)
    /\ IF run[u].result.tag = "PATH" /\ Exists(files, run[u].result.path)
       THEN \E edit_ok \in BOOLEAN :
               /\ pc' = [pc EXCEPT ![u] =
                            IF edit_ok THEN "send_audio" ELSE "error_reply"]
               /\ run' = [run EXCEPT ![u] = HandlerLocals(@)]
               /\ UNCHANGED fsm
       ELSE Finish(u)
    /\ UNCHANGED <<settings, world, files, users, messages, delivered,
                   incCalls, audios>>
    /\ UNCHANGED rest

\* open(audio_file) and message.answer_audio, then audio_file.unlink. An
\* open or a send that raises goes to "except Exception".
_url_handler_send(u) ==
    /\ pc[u] = "send_audio"
    /\ ~LoopHeld(u)
    /\ \E send_ok \in BOOLEAN :
        IF Exists(files, run[u].result.path) /\ send_ok
        THEN /\ delivered' = [delivered EXCEPT ![u] = TRUE]
             /\ audios' = [audios EXCEPT ![u] = @ + 1]
             /\ files' = Unlink(files, run[u].result.path)
             /\ pc' = [pc EXCEPT ![u] = "delete_msg"]
        ELSE /\ pc' = [pc EXCEPT ![u] = "error_reply"]
             /\ UNCHANGED <<delivered, audios, files>>
    /\ UNCHANGED <<fsm, run>>
    /\ UNCHANGED <<settings, world, users, messages, incCalls>>
    /\ UNCHANGED rest

\* processing_msg.delete(); when it raises, the handler's except runs.
_url_handler_delete(u) ==
    /\ pc[u] = "delete_msg"
    /\ ~LoopHeld(u)
    /\ \E delete_ok \in BOOLEAN :
        pc' = [pc EXCEPT ![u] =
                  IF delete_ok THEN "increment" ELSE "error_reply"]
    /\ UNCHANGED <<fsm, run>>
    /\ UNCHANGED <<settings, world, files, users, messages, delivered,
                   incCalls, audios>>
    /\ UNCHANGED rest

\* A store whose failed update raises into the handler.
StoreErrorRaised(db_ok) == IF db_ok THEN "finally" ELSE "error_reply"

\* Where the handler goes on after a call of the store: the store's methods
\* catch every Exception and log it, so the handler goes on as after a call
\* that worked.
AfterStoreCall(db_ok) == "finally"

\* db.increment_user_downloads: UPDATE users SET downloads_count =
\* downloads_count + 1 WHERE user_id = ?; a store error is swallowed.
increment_user_downloads(u) ==
    /\ pc[u] = "increment"
    /\ ~LoopHeld(u)
    /\ incCalls' = [incCalls EXCEPT ![u] = @ + 1]
    /\ \E db_ok \in BOOLEAN :
        /\ users' = IF db_ok /\ users[u].registered
                    THEN [users EXCEPT ![u].downloads_count = @ + 1]
                    ELSE users
        /\ pc' = [pc EXCEPT ![u] = AfterStoreCall(db_ok)]
    /\ UNCHANGED <<settings, world, files, messages, fsm, run, delivered,
                   audios>>
    /\ UNCHANGED rest

\* "except Exception": the processing message is edited into the error
\* message; an edit that raises leaves the handler through "finally" too.
_url_handler_except(u) ==
    /\ pc[u] = "error_reply"
    /\ ~LoopHeld(u)
    /\ pc' = [pc EXCEPT ![u] = "finally"]
    /\ UNCHANGED <<settings, world, files, users, messages, fsm, run,
                   delivered, incCalls, audios>>
    /\ UNCHANGED rest

\* "finally: await state.clear()" after the counter update or the except
\* block, and the handler returns.
_url_handler_finally(u) ==
    /\ pc[u] = "finally"
    /\ ~LoopHeld(u)
    /\ Finish(u)
    /\ UNCHANGED <<settings, world, files, users, messages, delivered,
                   incCalls, audios>>
    /\ UNCHANGED rest

\* ------------------------------------------------------- the download log

\* DatabaseManager.log_download: INSERT INTO downloads (user_id, ...,
\* success). No handler and no other method calls it.
log_download(rows, user_id, success) ==
    Append(rows, [user_id |-> user_id, success |-> success])

\* get_user_stats(user_id)['downloads']: downloads_count of the user's row,
\* and 0 for a user without a row.
get_user_stats(user_id) ==
    IF users[user_id].registered THEN users[user_id].downloads_count ELSE 0

\* get_admin_stats: SELECT COUNT(*) FROM downloads WHERE success = TRUE
total_downloads(rows) ==
    Cardinality({ i \in DOMAIN rows : rows[i].success })

\* ------------------------------------------------------------ specification

Next ==
    \E u \in Users :
        \/ _start_handler(u)
        \/ _default_handler(u)
        \/ _url_handler(u)
        \/ reject_answer(u)
        \/ get_video_info(u)
        \/ duration_check(u)
        \/ download(u)
        \/ _convert_to_mp3(u)
        \/ size_check(u)
        \/ _url_handler_result(u)
        \/ _url_handler_send(u)
        \/ _url_handler_delete(u)
        \/ increment_user_downloads(u)
        \/ _url_handler_except(u)
        \/ _url_handler_finally(u)

Spec == Init /\ [][Next]_vars

\* ------------------------------------------- the link functions on their own

\* The validator and _clean_url applied to one text each: a text is given,
\* is_valid_youtube_url gives its verdict, _clean_url its cleaned form.
InitUrl ==
    /\ settings = SettingsInit
    /\ world = "any"
    /\ InitBot
    /\ \E i \in LinkInputs :
           link = [parts |-> i.parts, url |-> i.url, valid |-> "unset",
                   cleaned |-> << >>]
    /\ calls = [c \in Calls |-> NoCall]
    /\ writer = 0
    /\ boot = BootDone
    /\ table = << >>
    /\ adds = [c \in AddCalls |-> NoAdd]
    /\ app = AppPolling
    /\ downloads = << >>
    /\ admins = NoAdmins

ValidateLink ==
    /\ link.valid = "unset"
    /\ link' = [link EXCEPT !.valid =
                   IF is_valid_youtube_url(link.url) THEN "yes" ELSE "no"]
    /\ UNCHANGED <<settings, world, files, users, messages, fsm, pc, run,
                   delivered, incCalls, audios, calls, writer, downloads,
                   admins, app, adds, table, boot>>

CleanLink ==
    /\ link.valid # "unset"
    /\ link.cleaned = << >>
    /\ link' = [link EXCEPT !.cleaned = _clean_url(link.url)]
    /\ UNCHANGED <<settings, world, files, users, messages, fsm, pc, run,
                   delivered, incCalls, audios, calls, writer, downloads,
                   admins, app, adds, table, boot>>

NextUrl == ValidateLink \/ CleanLink

SpecUrl == InitUrl /\ [][NextUrl]_vars

\* ------------------------------------------------------------------ claims

\* C1: every call of download_audio, whichever stage fails, returns exactly
\* one value of the closed set {final file path, "TOO_LONG", "UNAVAILABLE",
\* "AGE_RESTRICTED", "PRIVATE", None}; no exception reaches the handler.
C1_ClosedOutcomeSet ==
    \A u \in Users :
        pc[u] \in {"returned", "send_audio", "delete_msg", "increment"} =>
            /\ run[u].result.tag \in
                   {"PATH", "TOO_LONG", "UNAVAILABLE", "AGE_RESTRICTED",
                    "PRIVATE", "None"}
            /\ run[u].result.tag = "PATH" <=> run[u].result.path # NoPath

\* A call has returned None because a stage raised: the read of a missing
\* attribute in the duration check.
C1_Witness ==
    \E u \in Users :
        /\ pc[u] = "returned"
        /\ ~HasAttr(settings, "MAX_DURATION")
        /\ run[u].failedAt = "duration_check"
        /\ run[u].result = ReturnNone

\* C2: when the probe succeeds and reports a duration greater than the
\* configured maximum, download_audio returns "TOO_LONG" and the fetch stage
\* is not executed in that run.
C2_TooLongWithoutFetch ==
    \A u \in Users :
        ( /\ pc[u] = "returned"
          /\ run[u].info.tag = "dict"
          /\ run[u].info.duration > ConfiguredMaxDuration ) =>
            /\ run[u].result = Status("TOO_LONG")
            /\ \A i \in 1..Len(run[u].stages) : run[u].stages[i] # "fetch"

\* C3: when all stages succeed in a run (metadata probed, duration within
\* the maximum, a stream found and fetched, transcoding done, final size at
\* most the limit), download_audio returns the path of the final MP3 file,
\* which exists when the call returns.
C3_SuccessWhenAllStagesSucceed ==
    \A u \in Users :
        (world = "all_succeed" /\ pc[u] = "returned") =>
            /\ run[u].result.tag = "PATH"
            /\ Exists(files, run[u].result.path)

\* C4: if the transcoded file's size exceeds MAX_FILE_SIZE * 1024 * 1024,
\* download_audio returns a failure (not a path) and the file no longer
\* exists in the scratch directory when the call returns.
C4_OversizeFailsAndRemoves ==
    [][ \A u \in Users :
          ( /\ pc[u] = "size_check"
            /\ pc'[u] = "returned"
            /\ Exists(files, run[u].mp3_path)
            /\ files[run[u].mp3_path] > settings.MAX_FILE_SIZE * 1024 * 1024 )
          => /\ run'[u].result.tag # "PATH"
             /\ ~Exists(files', run[u].mp3_path) ]_vars

\* A call has returned None for a file one byte over the limit, and the file
\* is gone.
C4_Witness ==
    \E u \in Users :
        /\ pc[u] = "returned"
        /\ run[u].failedAt = "size_check"
        /\ run[u].file_size > settings.MAX_FILE_SIZE * 1024 * 1024
        /\ run[u].result = ReturnNone
        /\ ~Exists(files, run[u].mp3_path)

\* C5: after any pipeline run returns, successful or failed (a fetch that
\* raises after it began writing included), the run's intermediate fetched
\* file does not exist in the scratch directory.
C5_NoIntermediateArtifactLeft ==
    \A u \in Users :
        (pc[u] = "returned" /\ run[u].temp_path # NoPath) =>
            ~Exists(files, run[u].temp_path)

\* C6: for a link whose pipeline run produced a final file, the file is
\* deleted on every exit path of _url_handler, a failed send included: no
\* final file remains once the handler has returned.
C6_FinalArtifactDeletedOnExit ==
    [][ \A u \in Users :
          ( /\ pc[u] # "idle"
            /\ pc'[u] = "idle"
            /\ run[u].result.tag = "PATH" )
          => ~Exists(files', run[u].result.path) ]_vars

\* C7: two pipeline runs in flight at the same time, for different users and
\* the same sanitized title, have distinct fetched file paths and distinct
\* transcoded file paths.
C7_DistinctArtifactPaths ==
    \A u, v \in Users :
        (u # v /\ pc[u] # "idle" /\ pc[v] # "idle") =>
            /\ run[u].temp_path # NoPath => run[u].temp_path # run[v].temp_path
            /\ run[u].mp3_path # NoPath => run[u].mp3_path # run[v].mp3_path

\* C8: within one run the stages execute in the order probe, duration check,
\* fetch, transcode, size check, each at most once, and once a stage fails
\* the run is at its terminal outcome without any later stage.
C8_StagesInOrderOnce ==
    \A u \in Users :
        LET order == <<"probe", "duration_check", "fetch", "transcode",
                       "size_check">>
            done == run[u].stages
        IN
        /\ Len(done) <= Len(order)
        /\ done = SubSeq(order, 1, Len(done))
        /\ run[u].failedAt # "none" =>
               /\ pc[u] = "returned"
               /\ done # << >>
               /\ done[Len(done)] = run[u].failedAt

\* A run whose transcode failed has returned after four stages.
C8_Witness ==
    \E u \in Users :
        /\ pc[u] = "returned"
        /\ run[u].failedAt = "transcode"
        /\ run[u].stages = <<"probe", "duration_check", "fetch", "transcode">>
        /\ run[u].result = ReturnNone

\* C9: for every handled link, increment_user_downloads is invoked exactly
\* once when the outcome is a path and the audio was delivered, and not at
\* all otherwise.
C9_IncrementOnceIffDelivered ==
    \A u \in Users :
        pc[u] = "idle" => incCalls[u] = IF delivered[u] THEN 1 ELSE 0

\* C10: a probe error whose text contains "private" (in any case) gives
\* "PRIVATE"; otherwise a text with an unavailability indicator gives
\* "UNAVAILABLE", a text that refers to age or restriction gives
\* "AGE_RESTRICTED", and any other error gives None.
C10_ProbeErrorClassification ==
    \A u \in Users :
        (pc[u] = "returned" /\ run[u].error # NoError) =>
            LET error_msg == Lower(run[u].error)
                tag == run[u].result.tag
            IN
            IF Contains(StrPrivate, error_msg) THEN tag = "PRIVATE"
            ELSE IF Contains(StrUnavailable, error_msg)
                 THEN tag = "UNAVAILABLE"
            ELSE IF \/ Contains(StrAge, error_msg)
                    \/ Contains(StrRestricted, error_msg)
                 THEN tag = "AGE_RESTRICTED"
            ELSE tag = "None"

\* ------------------------------------------------ the start of the store

\* DatabaseManager.__init__ has called asyncio.create_task(
\* self._init_database()) and returned; the application goes on to polling
\* while the task runs. Nothing awaits the task.
InitBoot ==
    /\ settings = SettingsInit
    /\ world = "any"
    /\ InitBot
    /\ link = NoLink
    /\ calls = [c \in Calls |-> NoCall]
    /\ writer = 0
    /\ downloads = << >>
    /\ admins = NoAdmins
    /\ app = AppPolling
    /\ adds = [c \in AddCalls |-> NoAdd]
    /\ table = << >>
    /\ \E tables \in {{}, {"users", "downloads"}} :
           boot = [BootStarted EXCEPT !.tables = tables]

\* The state the start of the store leaves alone.
BootUnchanged ==
    UNCHANGED <<settings, world, files, users, messages, fsm, pc, run,
                delivered, incCalls, audios, link, calls, writer, downloads,
                admins, app, adds, table>>

\* The steps of _init_database, in order; each is an await.
InitSteps ==
    <<"created", "connected", "users_table", "downloads_table", "indexes",
      "done">>

\* _init_database takes its next step: connect, CREATE TABLE users, CREATE
\* TABLE downloads, the two CREATE INDEX, commit. A CREATE TABLE is in
\* force once executed. An error at any step ends the task: its "except
\* Exception" logs it.
_init_database ==
    /\ \E i \in 1..(Len(InitSteps) - 1) :
        /\ boot.task = InitSteps[i]
        /\ \E db_ok \in BOOLEAN :
            boot' = IF ~db_ok
                    THEN [boot EXCEPT !.task = "failed"]
                    ELSE [boot EXCEPT
                            !.task = InitSteps[i + 1],
                            !.tables =
                               IF InitSteps[i + 1] = "users_table"
                               THEN @ \cup {"users"}
                               ELSE IF InitSteps[i + 1] = "downloads_table"
                               THEN @ \cup {"downloads"}
                               ELSE @]
    /\ BootUnchanged

\* The dispatcher hands an update to a handler, which calls the store:
\* /start calls add_user, /stats get_user_stats, a link that was delivered
\* increment_user_downloads; each is a query on the users table.
ReceiveUpdate ==
    /\ boot.pending = "none"
    /\ Len(boot.queries) < MaxQueries
    /\ \E op \in {"add_user", "get_user_stats", "increment_user_downloads"} :
           boot' = [boot EXCEPT !.pending = op]
    /\ BootUnchanged

\* The operation's first statement on the users table executes; no method
\* of the store waits for the schema-creation task. The statement works
\* when the table exists and fails with "no such table" otherwise, which the
\* method's "except Exception" logs.
HandlerQuery ==
    /\ boot.pending # "none"
    /\ boot' = [boot EXCEPT
                  !.pending = "none",
                  !.queries = Append(@,
                      [op |-> boot.pending,
                       init |-> boot.task,
                       result |-> IF "users" \in boot.tables
                                  THEN "ok" ELSE "no such table"])]
    /\ BootUnchanged

NextBoot == _init_database \/ ReceiveUpdate \/ HandlerQuery

SpecBoot == InitBoot /\ [][NextBoot]_vars

\* ------------------------------------------- the application's life cycle

\* BotApplication.startup on a Unix system, from the bot is built to the end
\* of shutdown(), with the signals the process receives.
InitApp ==
    /\ settings = SettingsInit
    /\ world = "any"
    /\ InitBot
    /\ link = NoLink
    /\ calls = [c \in Calls |-> NoCall]
    /\ writer = 0
    /\ boot = BootDone
    /\ table = << >>
    /\ adds = [c \in AddCalls |-> NoAdd]
    /\ downloads = << >>
    /\ admins = NoAdmins
    /\ app = AppStarted

\* The state the application's steps leave alone.
AppUnchanged ==
    UNCHANGED <<settings, world, files, users, messages, fsm, pc, run,
                delivered, incCalls, audios, link, calls, writer, downloads,
                admins, adds, table, boot>>

\* _setup_signal_handlers: loop.add_signal_handler(sig, signal_handler) for
\* SIGTERM and SIGINT.
_setup_signal_handlers ==
    /\ app.phase = "bot_built"
    /\ app' = [app EXCEPT !.phase = "handlers_set",
                          !.handlers = [sig \in Signals |-> "application"]]
    /\ AppUnchanged

\* A start_polling called with handle_signals=False.
DispatcherLeavesSignals == FALSE

\* self.dp.start_polling(self.bot) is called with the library's defaults:
\* handle_signals=True, the dispatcher installs its own handlers for SIGTERM
\* and SIGINT.
DispatcherHandlesSignals == TRUE

\* YouTubeAudioBot.start_polling: Dispatcher.start_polling begins. A handler
\* added for a signal replaces the one added before.
start_polling ==
    /\ app.phase = "handlers_set"
    /\ app' = [app EXCEPT
                 !.phase = "polling",
                 !.handlers = IF DispatcherHandlesSignals
                              THEN [sig \in Signals |-> "dispatcher"]
                              ELSE @]
    /\ AppUnchanged

\* The dispatcher polls an update and hands it to a handler.
PollUpdate ==
    /\ app.phase = "polling"
    /\ ~app.stop_signal
    /\ app.updates < MaxUpdates
    /\ app' = [app EXCEPT !.updates = @ + 1]
    /\ AppUnchanged

\* The process receives a signal and the event loop calls the handler
\* installed for it: signal_handler of _setup_signal_handlers sets
\* _shutdown_event, the dispatcher's handler sets its stop signal.
Signal(sig) ==
    /\ app.phase \in {"handlers_set", "polling", "polling_ended", "returned",
                      "shutdown"}
    /\ Len(app.received) < MaxSignals
    /\ app' = [app EXCEPT
                 !.received = Append(@, sig),
                 !.while_polling = @ \/ app.phase = "polling",
                 !.shutdown_event = @ \/ app.handlers[sig] = "application",
                 !.stop_signal = @ \/ (/\ app.handlers[sig] = "dispatcher"
                                       /\ app.phase = "polling")]
    /\ AppUnchanged

\* Dispatcher.start_polling on its stop signal: polling is cancelled and the
\* bot's session is closed (close_bot_session=True). Nothing waits for
\* _shutdown_event.
StopPolling ==
    /\ app.phase = "polling"
    /\ app.stop_signal
    /\ app' = [app EXCEPT !.phase = "polling_ended", !.session = "closed"]
    /\ AppUnchanged

\* YouTubeAudioBot.start_polling, "finally: await self.session.close()".
start_polling_finally ==
    /\ app.phase = "polling_ended"
    /\ app' = [app EXCEPT !.phase = "returned", !.session = "closed"]
    /\ AppUnchanged

\* BotApplication.startup, "finally: await self.shutdown()".
shutdown ==
    /\ app.phase = "returned"
    /\ app' = [app EXCEPT !.phase = "shutdown"]
    /\ AppUnchanged

\* YouTubeAudioBot.stop: session.close() and db.close().
stop ==
    /\ app.phase = "shutdown"
    /\ app' = [app EXCEPT !.phase = "stopped", !.session = "closed",
                          !.db_closed = TRUE]
    /\ AppUnchanged

NextApp ==
    \/ _setup_signal_handlers
    \/ start_polling
    \/ PollUpdate
    \/ \E sig \in Signals : Signal(sig)
    \/ StopPolling
    \/ start_polling_finally
    \/ shutdown
    \/ stop

SpecApp == InitApp /\ [][NextApp]_vars

\* The event loop runs every callback and every coroutine that is ready.
SpecAppFair ==
    /\ SpecApp
    /\ WF_vars(StopPolling)
    /\ WF_vars(start_polling_finally)
    /\ WF_vars(shutdown)
    /\ WF_vars(stop)

\* ----------------------------------------------- the admin list on its own

\* str.split(sep) for a separator of one character.
RECURSIVE Split(_, _)
Split(s, sep) ==
    IF \A i \in DOMAIN s : s[i] # sep
    THEN <<s>>
    ELSE LET i == Minimum({ j \in DOMAIN s : s[j] = sep }) IN
         <<SubSeq(s, 1, i - 1)>> \o Split(SubSeq(s, i + 1, Len(s)), sep)

\* The texts int() takes: digits after an optional sign. Others raise
\* ValueError.
IsIntLiteral(t) ==
    LET body == IF t # << >> /\ Head(t) \in {"+", "-"} THEN Tail(t) ELSE t IN
    /\ body # << >>
    /\ \A i \in DOMAIN body : body[i] \in Digits

RECURSIVE DigitsValue(_)
DigitsValue(t) ==
    LET DigitChars == <<"0","1","2","3","4","5","6","7","8","9">> IN
    IF t = << >> THEN 0
    ELSE 10 * DigitsValue(SubSeq(t, 1, Len(t) - 1))
         + (CHOOSE d \in 0..9 : DigitChars[d + 1] = t[Len(t)])

\* int(t) for a text int() takes.
IntOf(t) ==
    IF Head(t) = "-" THEN 0 - DigitsValue(Tail(t))
    ELSE IF Head(t) = "+" THEN DigitsValue(Tail(t))
    ELSE DigitsValue(t)

\* Settings._parse_admins: [] for the empty text; else int() of every piece
\* between commas that is not blank, and [] for the whole list when int()
\* raises ValueError on one of them.
_parse_admins(admins_str) ==
    IF admins_str = << >> THEN << >>
    ELSE LET pieces == Split(admins_str, ",")
             kept == SelectSeq(pieces, LAMBDA p : Strip(p) # << >>)
         IN  IF \E i \in DOMAIN kept : ~IsIntLiteral(Strip(kept[i]))
             THEN << >>
             ELSE [i \in DOMAIN kept |-> IntOf(Strip(kept[i]))]

RECURSIVE JoinComma(_)
JoinComma(es) ==
    IF Len(es) = 1 THEN es[1]
    ELSE es[1] \o <<",">> \o JoinComma(Tail(es))

\* The values of BOT_ADMINS: up to MaxAdmins entries with commas between;
\* the entries are ids, an id between blanks, a negative id, a word and an
\* empty entry.
AdminTexts ==
    LET AdminEntries ==
            { <<"1","2">>, <<"7">>, <<" ","5"," ">>, <<"-","3">>, <<"x">>,
              << >> }
    IN  { JoinComma(es) :
            es \in UNION { [1..n -> AdminEntries] : n \in 1..MaxAdmins } }

\* Settings.__init__ reading BOT_ADMINS: the environment holds a text, and
\* _parse_admins turns it into settings.BOT_ADMINS.
InitAdmins ==
    /\ settings = SettingsInit
    /\ world = "any"
    /\ InitBot
    /\ link = NoLink
    /\ calls = [c \in Calls |-> NoCall]
    /\ writer = 0
    /\ boot = BootDone
    /\ table = << >>
    /\ adds = [c \in AddCalls |-> NoAdd]
    /\ app = AppPolling
    /\ downloads = << >>
    /\ \E t \in AdminTexts :
           admins = [env |-> t, parsed |-> FALSE, ids |-> << >>]

ParseAdmins ==
    /\ ~admins.parsed
    /\ admins' = [admins EXCEPT !.parsed = TRUE,
                                !.ids = _parse_admins(admins.env)]
    /\ UNCHANGED <<settings, world, files, users, messages, fsm, pc, run,
                   delivered, incCalls, audios, link, calls, writer, downloads,
                   app, adds, table, boot>>

SpecAdmins == InitAdmins /\ [][ParseAdmins]_vars

\* ------------------------------ concurrent increments of one user's counter

\* The user whose counter the calls increment: a row of the users table.
Counted == "u1"

\* increment_user_downloads, called several times at once for one user.
\* Each call opens its own connection, executes the UPDATE, which takes the
\* database's write lock and writes downloads_count + 1 inside the call's
\* transaction, and commits. An error at any of them is caught by the
\* call's "except Exception"; closing the connection rolls back what was
\* not committed.
InitStore ==
    /\ settings = SettingsInit
    /\ world = "any"
    /\ files = << >>
    /\ users = [u \in Users |->
                   [registered |-> u = Counted, downloads_count |-> 0]]
    /\ messages = 0
    /\ fsm = [u \in Users |-> "none"]
    /\ pc = [u \in Users |-> "idle"]
    /\ run = [u \in Users |-> NoRun]
    /\ delivered = [u \in Users |-> FALSE]
    /\ incCalls = [u \in Users |-> 0]
    /\ audios = [u \in Users |-> 0]
    /\ link = NoLink
    /\ calls = [c \in Calls |-> NoCall]
    /\ writer = 0
    /\ boot = BootDone
    /\ table = << >>
    /\ adds = [c \in AddCalls |-> NoAdd]
    /\ app = AppPolling
    /\ downloads = << >>
    /\ admins = NoAdmins

\* The state the calls leave alone.
StoreUnchanged ==
    UNCHANGED <<settings, world, files, messages, fsm, pc, run, delivered,
                incCalls, audios, link, downloads, admins, app, adds, table,
                boot>>

\* await self.db.increment_user_downloads(user_id)
Call(c) ==
    /\ calls[c].phase = "none"
    /\ calls' = [calls EXCEPT ![c].phase = "called"]
    /\ UNCHANGED <<users, writer>>
    /\ StoreUnchanged

\* aiosqlite.connect(self.db_path)
Connect(c) ==
    /\ calls[c].phase = "called"
    /\ \E db_ok \in BOOLEAN :
        calls' = [calls EXCEPT ![c].phase =
                     IF db_ok THEN "connected" ELSE "failed"]
    /\ UNCHANGED <<users, writer>>
    /\ StoreUnchanged

\* A database that lets two connections write at once.
WriteLockIgnored(w) == TRUE

\* The database's write lock: one connection writes at a time, the UPDATE
\* of another waits for the lock.
WriteLockFree(w) == w = 0

\* db.execute("UPDATE users SET downloads_count = downloads_count + 1 ...
\* WHERE user_id = ?"): with the lock, the row is read and written inside the
\* transaction; waiting too long for the lock, or any other error, fails
\* the call.
Execute(c) ==
    /\ calls[c].phase = "connected"
    /\ \E db_ok \in BOOLEAN :
        IF db_ok
        THEN /\ WriteLockFree(writer)
             /\ writer' = c
             /\ calls' = [calls EXCEPT ![c] =
                    [phase |-> "executed",
                     value |-> users[Counted].downloads_count + 1]]
        ELSE /\ calls' = [calls EXCEPT ![c].phase = "failed"]
             /\ UNCHANGED writer
    /\ UNCHANGED users
    /\ StoreUnchanged

\* db.commit(): the written row becomes the stored one and the lock is
\* released; when the commit fails the transaction is rolled back.
Commit(c) ==
    /\ calls[c].phase = "executed"
    /\ \E db_ok \in BOOLEAN :
        IF db_ok
        THEN /\ users' = [users EXCEPT
                             ![Counted].downloads_count = calls[c].value]
             /\ calls' = [calls EXCEPT ![c].phase = "done"]
        ELSE /\ calls' = [calls EXCEPT ![c].phase = "failed"]
             /\ UNCHANGED users
    /\ writer' = IF writer = c THEN 0 ELSE writer
    /\ StoreUnchanged

NextStore ==
    \E c \in Calls : Call(c) \/ Connect(c) \/ Execute(c) \/ Commit(c)

SpecStore == InitStore /\ [][NextStore]_vars

\* ----------------------------------------- concurrent add_user for one id

\* add_user, called several times at once for one user id, with downloads
\* counted for that user meanwhile. Each call opens its own connection,
\* SELECTs the row, then UPDATEs it or INSERTs one, and commits. An error at
\* any of them is caught by the call's "except Exception"; closing the
\* connection rolls back what was not committed.
InitAddUser ==
    /\ settings = SettingsInit
    /\ world = "any"
    /\ InitBot
    /\ link = NoLink
    /\ calls = [c \in Calls |-> NoCall]
    /\ writer = 0
    /\ boot = BootDone
    /\ downloads = << >>
    /\ admins = NoAdmins
    /\ app = AppPolling
    /\ adds = [c \in AddCalls |-> NoAdd]
    /\ table = << >>

\* The state the calls of add_user leave alone.
AddUserUnchanged ==
    UNCHANGED <<settings, world, files, users, messages, fsm, pc, run,
                delivered, incCalls, audios, link, calls, downloads, admins,
                app, boot>>

\* await self.db.add_user(...)
AddCall(c) ==
    /\ adds[c].phase = "none"
    /\ adds' = [adds EXCEPT ![c].phase = "called"]
    /\ UNCHANGED <<table, writer>>
    /\ AddUserUnchanged

\* aiosqlite.connect(self.db_path)
AddConnect(c) ==
    /\ adds[c].phase = "called"
    /\ \E db_ok \in BOOLEAN :
        adds' = [adds EXCEPT ![c] =
                    IF db_ok THEN [@ EXCEPT !.phase = "connected"]
                    ELSE [@ EXCEPT !.phase = "failed",
                                   !.error = "OperationalError"]]
    /\ UNCHANGED <<table, writer>>
    /\ AddUserUnchanged

\* SELECT user_id FROM users WHERE user_id = ?, and fetchone(): the call
\* sees the committed rows.
AddSelect(c) ==
    /\ adds[c].phase = "connected"
    /\ \E db_ok \in BOOLEAN :
        adds' = [adds EXCEPT ![c] =
                    IF db_ok
                    THEN [@ EXCEPT !.phase = "selected",
                                   !.user_exists = table # << >>]
                    ELSE [@ EXCEPT !.phase = "failed",
                                   !.error = "OperationalError"]]
    /\ UNCHANGED <<table, writer>>
    /\ AddUserUnchanged

\* A users table without a key on user_id.
NoPrimaryKey(rows) == FALSE

\* user_id INTEGER PRIMARY KEY: an INSERT of an id that has a row fails
\* with IntegrityError.
PrimaryKeyViolated(rows) == rows # << >>

\* The UPDATE of the existing row, or the INSERT of a new one: the statement
\* waits for the database's write lock; waiting too long, any other error,
\* and an INSERT that violates the key fail the call.
AddWrite(c) ==
    /\ adds[c].phase = "selected"
    /\ \E db_ok \in BOOLEAN :
        IF ~db_ok
        THEN /\ adds' = [adds EXCEPT ![c].phase = "failed",
                                     ![c].error = "OperationalError"]
             /\ UNCHANGED writer
        ELSE /\ WriteLockFree(writer)
             /\ IF ~adds[c].user_exists /\ PrimaryKeyViolated(table)
                THEN /\ adds' = [adds EXCEPT ![c].phase = "failed",
                                             ![c].error = "IntegrityError"]
                     /\ UNCHANGED writer
                ELSE /\ adds' = [adds EXCEPT ![c].phase = "written"]
                     /\ writer' = c
    /\ UNCHANGED table
    /\ AddUserUnchanged

\* db.commit(): the UPDATE (username, first_name, last_name, last_activity)
\* or the INSERT becomes the stored state and the lock is released; when the
\* commit fails the transaction is rolled back. The row of an INSERT has the
\* time of the insert as registration_date and downloads_count 0.
AddCommit(c) ==
    /\ adds[c].phase = "written"
    /\ \E db_ok \in BOOLEAN :
        IF db_ok
        THEN /\ table' = IF adds[c].user_exists
                         THEN [i \in DOMAIN table |->
                                  [table[i] EXCEPT !.username = c]]
                         ELSE Append(table,
                                     [username |-> c,
                                      registration_date |-> c,
                                      downloads_count |-> 0])
             /\ adds' = [adds EXCEPT ![c].phase = "done"]
        ELSE /\ adds' = [adds EXCEPT ![c].phase = "failed",
                                     ![c].error = "OperationalError"]
             /\ UNCHANGED table
    /\ writer' = IF writer = c THEN 0 ELSE writer
    /\ AddUserUnchanged

\* A download counted for the user meanwhile: increment_user_downloads'
\* UPDATE and commit, which change every row of the id.
CountDownload ==
    /\ WriteLockFree(writer)
    /\ table # << >>
    /\ \A i \in DOMAIN table : table[i].downloads_count < MaxCounted
    /\ table' = [i \in DOMAIN table |->
                    [table[i] EXCEPT !.downloads_count = @ + 1]]
    /\ UNCHANGED <<adds, writer>>
    /\ AddUserUnchanged

NextAddUser ==
    \/ \E c \in AddCalls :
          AddCall(c) \/ AddConnect(c) \/ AddSelect(c) \/ AddWrite(c)
              \/ AddCommit(c)
    \/ CountDownload

SpecAddUser == InitAddUser /\ [][NextAddUser]_vars

\* ------------------------------------------------------------------ claims

\* C11: is_valid_youtube_url rejects every text that carries no 11-character
\* video id in a recognized position, links to the site with a path of 11 or
\* more other characters included.
C11_RejectsTextsWithoutId ==
    link.valid = "yes" => link.parts.id # NoId

\* C12: is_valid_youtube_url accepts every link that carries an 11-character
\* id in a recognized position (watch?v=, /embed/, /v/, short host path), for
\* the www, bare, mobile and short hosts, with or without scheme.
C12_AcceptsEveryHostVariant ==
    ( /\ link.valid # "unset"
      /\ link.parts.shape \in {"watch", "embed", "v", "short"}
      /\ link.parts.host \in {"www", "bare", "mobile", "short"} )
    => link.valid = "yes"

\* C13: for accepted links that carry the same id and differ only in extra
\* query parameters, _clean_url returns the one canonical form
\* https://www.youtube.com/watch?v=<id>, for the shapes watch?v=, /embed/,
\* /v/ and the short host.
C13_CleanUrlIsCanonical ==
    ( /\ link.valid = "yes"
      /\ link.cleaned # << >>
      /\ link.parts.shape \in {"watch", "embed", "v", "short"} )
    => link.cleaned = CanonicalUrl(link.parts.id)

\* C14: the fetch only ever transfers an audio-only stream, chosen by the
\* tier order; when the source offers no audio-only stream the fetch fails
\* and nothing is transferred or written to the scratch directory.
C14_OnlyAudioOnlyStreamFetched ==
    \A u \in Users : \A s \in run[u].stream : s.only_audio

\* C15: the blocking probe, fetch and transcode of one user's run execute on
\* worker threads, so while they are in progress (even if they never
\* complete) a message of another user can be handled by the loop.
C15_LoopFreeDuringBlockingStages ==
    \A u, v \in Users :
        ( /\ u # v
          /\ pc[u] \in {"probe", "fetch", "transcode"}
          /\ pc[v] = "idle"
          /\ messages < MaxMessages )
        => ENABLED (_start_handler(v) \/ _default_handler(v) \/ _url_handler(v))

\* One user's fetch is in progress while another user's text is being
\* answered.
C15_Witness ==
    \E u, v \in Users :
        /\ u # v
        /\ pc[u] = "fetch"
        /\ pc[v] = "reject"

\* C16 as stated: for any interleaving of k concurrent calls of
\* increment_user_downloads for one existing user, the counter ends exactly
\* k higher than it started.
C16_CounterEndsKHigher ==
    (\A c \in Calls : calls[c].phase \in {"none", "done", "failed"}) =>
        users[Counted].downloads_count =
            Cardinality({ c \in Calls : calls[c].phase # "none" })

\* C16 as amended: at any moment of any interleaving the counter is higher
\* than it started by exactly the number of calls that have committed; a
\* call that met a store error adds nothing, no committed increment is lost
\* and none is applied twice.
C16_CounterCountsCommittedCalls ==
    users[Counted].downloads_count =
        Cardinality({ c \in Calls : calls[c].phase = "done" })

\* All calls were made and have ended: one met a store error, the others
\* committed.
C16_Witness ==
    /\ \A c \in Calls : calls[c].phase \in {"done", "failed"}
    /\ Cardinality({ c \in Calls : calls[c].phase = "failed" }) = 1
    /\ users[Counted].downloads_count = MaxCalls - 1

\* C17: a failure of a store operation never raises into the handler: the
\* handler goes on from the counter update to its "finally" whether the
\* update worked or not, never to the error message of its except block,
\* and the delivery made before stays made.
C17_StoreFailureSwallowed ==
    [][ \A u \in Users :
          /\ (pc[u] = "increment" /\ pc'[u] # "increment") =>
                 /\ pc'[u] = "finally"
                 /\ delivered[u] /\ delivered'[u]
          /\ (pc[u] = "finally" /\ incCalls[u] > 0 /\ delivered[u]) =>
                 /\ pc'[u] \in {"finally", "idle"}
                 /\ delivered'[u] ]_vars

\* The audio was sent to a registered user and the one counter update that
\* followed failed in the store; the handler is at its "finally".
C17_Witness ==
    \E u \in Users :
        /\ pc[u] = "finally"
        /\ delivered[u]
        /\ users[u].registered
        /\ incCalls[u] = 1
        /\ users[u].downloads_count = 0

\* C18: every attempt the handler started adds one row to the download log
\* by the time the handler returns, for the attempt's user and with success
\* true exactly when download_audio returned a path; total_downloads grows
\* by one for a successful attempt and by nothing for another.
C18_OneLogRowPerAttempt ==
    [][ \A u \in Users :
          (pc[u] \notin {"idle", "reject"} /\ pc'[u] = "idle") =>
              LET success == run[u].result.tag = "PATH" IN
              /\ downloads' = log_download(downloads, u, success)
              /\ total_downloads(downloads') =
                     total_downloads(downloads) + IF success THEN 1 ELSE 0
      ]_vars

\* C19: for every comma-separated admin list, _parse_admins returns exactly
\* the entries that are valid integers, in their order in the list: an
\* invalid entry is dropped alone and the valid ids next to it are kept.
C19_KeepsValidAdminIds ==
    admins.parsed =>
        LET valid == SelectSeq(Split(admins.env, ","),
                               LAMBDA p : IsIntLiteral(Strip(p)))
        IN  admins.ids = [i \in DOMAIN valid |-> IntOf(Strip(valid[i]))]

\* C20: a text that the validator rejects, as the handler that receives it
\* applies the validator, is answered with a rejection message and nothing
\* else: the handler starts no probe, fetch or transcode for it, writes no
\* file and returns.
C20_RejectedTextStartsNothing ==
    [][ \A u \in Users :
          /\ (pc[u] = "idle" /\ pc'[u] # "idle") =>
                 LET text == run'[u].text
                     rejected ==
                         IF fsm[u] = "waiting_for_url"
                         THEN ~is_valid_youtube_url(Strip(text))
                         ELSE \/ ~is_valid_youtube_url(text)
                              \/ ~is_valid_youtube_url(Strip(text))
                 IN  rejected =>
                         /\ pc'[u] = "reject"
                         /\ run'[u].stages = << >>
                         /\ files' = files
          /\ (pc[u] = "reject" /\ pc'[u] # "reject") =>
                 /\ pc'[u] = "idle"
                 /\ run[u].stages = << >>
                 /\ files' = files
      ]_vars

\* A text that is no link is about to be answered with the rejection; no
\* stage has run and no file exists.
C20_Witness ==
    \E u \in Users :
        /\ pc[u] = "reject"
        /\ run[u].text = TextHello
        /\ ~is_valid_youtube_url(run[u].text)
        /\ run[u].stages = << >>
        /\ files = << >>

\* C21: get_video_info classifies a probe error text by a fixed precedence
\* of the indicators it contains: "unavailable" first, then "age" or
\* "restricted", then "private", and None for a text with none of them; a
\* text with several indicators gets the status of the first in that order.
C21_ProbeErrorPrecedence ==
    \A u \in Users :
        (pc[u] = "returned" /\ run[u].error # NoError) =>
            LET error_msg == Lower(run[u].error)
                tag == run[u].result.tag
                unavailable == Contains(StrUnavailable, error_msg)
                age == \/ Contains(StrAge, error_msg)
                       \/ Contains(StrRestricted, error_msg)
                private == Contains(StrPrivate, error_msg)
            IN
            /\ tag \in {"UNAVAILABLE", "AGE_RESTRICTED", "PRIVATE", "None"}
            /\ tag = "UNAVAILABLE" <=> unavailable
            /\ tag = "AGE_RESTRICTED" <=> (~unavailable /\ age)
            /\ tag = "PRIVATE" <=> (~unavailable /\ ~age /\ private)
            /\ tag = "None" <=> (~unavailable /\ ~age /\ ~private)

\* Probes have failed with texts of two indicators each: one with "private"
\* and "unavailable" gave UNAVAILABLE, one with "age" and "private" gave
\* AGE_RESTRICTED.
C21_Witness ==
    \E u, v \in Users :
        /\ pc[u] = "returned"
        /\ run[u].error = MsgPrivateUnavailable
        /\ run[u].result.tag = "UNAVAILABLE"
        /\ pc[v] = "returned"
        /\ run[v].error = MsgPrivateIdAge
        /\ run[v].result.tag = "AGE_RESTRICTED"

C23_StatsCountDeliveries ==
    \A u \in Users :
        pc[u] = "idle" => get_user_stats(u) = audios[u]

\* C24: whenever _default_handler or _url_handler has finished handling a
\* message, the user's conversation state is cleared; no path, the
\* invalid-link rejection inside _url_handler included, leaves the user in
\* waiting_for_url.
C24_StateClearedWhenHandled ==
    [][ \A u \in Users :
          (pc[u] # "idle" /\ pc'[u] = "idle") => fsm'[u] = "none" ]_vars

\* C25 as stated: for any interleaving of calls of add_user for one user
\* id, the users table ends with exactly one row for that id.
C25_ExactlyOneRow ==
    ( /\ \E c \in AddCalls : adds[c].phase # "none"
      /\ \A c \in AddCalls : adds[c].phase \in {"none", "done", "failed"} )
    => Len(table) = 1

\* C25 as amended: in any interleaving of calls of add_user for one user
\* id, two first-time calls that both found no row included, the users
\* table never holds more than one row for the id, it holds exactly one once
\* a call has committed, and a commit of add_user for an id that has a row
\* leaves the row's download counter and registration date as they were.
C25_OneRowOnceCommitted ==
    [][ /\ Len(table') <= 1
        /\ (\E c \in AddCalls : adds'[c].phase = "done") => Len(table') = 1
        /\ \A c \in AddCalls :
              ( /\ adds[c].phase = "written"
                /\ adds'[c].phase = "done"
                /\ table # << >> )
              => /\ Len(table') = Len(table)
                 /\ \A i \in DOMAIN table :
                       /\ table'[i].downloads_count = table[i].downloads_count
                       /\ table'[i].registration_date =
                              table[i].registration_date
      ]_vars

\* Two first-time calls both found no row; one inserted and committed, the
\* INSERT of the other failed on the key; a download was counted and the
\* one row holds it.
C25_Witness ==
    \E c, d \in AddCalls :
        /\ c # d
        /\ adds[c].phase = "done" /\ ~adds[c].user_exists
        /\ adds[d].phase = "failed" /\ ~adds[d].user_exists
        /\ adds[d].error = "IntegrityError"
        /\ Len(table) = 1
        /\ table[1].downloads_count = 1

\* C26: no store operation issued by a handler executes before the
\* schema-creation task has committed the tables: in every interleaving
\* _init_database is done before the first query of a handler.
C26_InitBeforeFirstQuery ==
    \A i \in DOMAIN boot.queries :
        /\ boot.queries[i].init = "done"
        /\ boot.queries[i].result = "ok"

====
